---------------------------- MODULE Spec2Model ----------------------------
(***************************************************************************)
(* Fuel gauge for a 1966 Rambler (Arduino Uno, 16x2 LCD).                  *)
(*                                                                         *)
(* Two sketches are modelled side by side, driven by the same clock and    *)
(* the same sensor:                                                        *)
(*   - the filtered, single-stage sketch   src/gas-gauge.ino               *)
(*   - the unfiltered, two-stage sketch    src/unnamed/part_000            *)
(* State of the two-stage sketch carries the suffix 2.                     *)
(*                                                                         *)
(* Platform facts used: on the Uno `int` and `unsigned int` are 16 bits,   *)
(* millis() returns a 32 bit count that is truncated when it is stored in  *)
(* an unsigned int, and float/double are both 32 bit floats.  Floats are   *)
(* modelled in fixed point with FP units per 1.0; each C float operation   *)
(* is one fixed point operation.                                           *)
(***************************************************************************)
EXTENDS Integers, Sequences, FiniteSets, Bags, TLC

(***************************************************************************)
(* Bounds of the model.                                                    *)
(***************************************************************************)
MaxPolls == 5
MaxFilterSamples == 102
MaxChanges == 1
QuantBelow == 78
QuantAbove == 27
MaxRuns == 3
MaxLiveClock == 66000

Steps == {499, 500, 4999, 5000, 61036}
FilterSteps == {5000}
Readings == {243, 300}
LiveSteps == {250, 500, 5000, 60037}

(***************************************************************************)
(* Program constants.                                                      *)
(***************************************************************************)
UINT_MOD == 65536
WRAP_DELTA_MS == 30000
STARTUP_SAMPLE_RATE_MS == 500
STARTUP_SAMPLE_DURATION_S == 5
NORMAL_SAMPLE_RATE_S == 5
MAX_SAMPLES == 100
MAX_BLOCKS == 16
BLOCK_MARGIN == 2
\* const unsigned int boot_time_ms = millis(); a static initialiser, run before
\* the timer is started
boot_time_ms == 0

\* the range of analogRead on the 10-bit converter
ADC_MAX == 1023

\* special-purpose characters and the character literals written to the LCD
INVERSE_G == 0
INVERSE_A == 1
INVERSE_S == 2
FILLED_BLOCK == 255
EMPTY_BLOCK == 32
OHMS == 244
CHAR_G == 71
CHAR_A == 65
CHAR_S == 83
CHAR_g == 103
CHAR_0 == 48
CHAR_DOT == 46
LCD_COLS == 16

NoValue == 0 - 1

Min(a, b) == IF a < b THEN a ELSE b
Max(a, b) == IF a > b THEN a ELSE b
Abs(a) == IF a < 0 THEN -a ELSE a
Sgn(a) == IF a < 0 THEN -1 ELSE 1

(***************************************************************************)
(* Fixed point floats.                                                     *)
(***************************************************************************)
FP == 1000 * 1000

\* |a| * |b| / FP rounded down, computed on the thousands and the units of
\* each operand so that no intermediate value leaves 32 bits
MulFP(a, b) ==
    LET a1 == a \div 1000
        a0 == a % 1000
        b1 == b \div 1000
        b0 == b % 1000
        m  == a1 * b0 + a0 * b1
    IN  a1 * b1 + (m \div 1000) + (((m % 1000) * 1000 + a0 * b0) \div FP)

\* float product a * b
FxMul(a, b) == Sgn(a) * Sgn(b) * MulFP(Abs(a), Abs(b))

\* |n| * FP / |d| rounded down, by long division
DivFP(n, d) == (n \div d) * FP + (((n % d) * FP) \div d)

\* float quotient n / d of two integer valued operands
FxRatio(n, d) == Sgn(n) * Sgn(d) * DivFP(Abs(n), Abs(d))

\* (int) x : C conversion of a float to int, truncation toward zero
FxToInt(x) == Sgn(x) * (Abs(x) \div FP)

(***************************************************************************)
(* Calibration, single stage.                                              *)
(***************************************************************************)
\* mutant: the commented-out "gallons short of full" fit of line 37
estimate_gallons_ShortOfFull(reading) ==
    FxMul(63700, reading) - 7300000

\* return 26.3 - (0.0637 * reading);
estimate_gallons_remaining_from_reading(reading) ==
    26300000 - FxMul(63700, reading)

(***************************************************************************)
(* Calibration, two stage.                                                 *)
(***************************************************************************)
\* mutant: the quadratic term of the fit is missing
estimate_ohmage_Linear(reading) ==
    LET norm_reading == FxRatio(reading - 80, 454)
    IN  FxMul(100 * FP, FxMul(466500, norm_reading)) + 2 * FP

estimate_ohmage_from_reading(reading) ==
    LET norm_reading == FxRatio(reading - 80, 454)
        norm_ohmage  == FxMul(538700, FxMul(norm_reading, norm_reading))
                          + FxMul(466500, norm_reading)
    IN  FxMul(100 * FP, norm_ohmage) + 2 * FP

\* mutant: the slope of the fit has the wrong sign
get_gallons_for_ohmage_Rising(ohmage) ==
    FxMul(301600, ohmage) + 2016000

\* return -0.3016*ohmage + 22.016;
get_gallons_for_ohmage(ohmage) ==
    FxMul(-301600, ohmage) + 22016000

(***************************************************************************)
(* Display quantizer (identical in both sketches).                         *)
(***************************************************************************)
\* mutant: the lower clamp is missing
get_num_display_blocks_NoFloor(gallons) ==
    Min(FxToInt(gallons) - BLOCK_MARGIN, MAX_BLOCKS)

\* mutant: gallons rounded to the nearest whole gallon, not truncated
get_num_display_blocks_Rounded(gallons) ==
    Max(0, Min(FxToInt(gallons + (FP \div 2)) - BLOCK_MARGIN, MAX_BLOCKS))

get_num_display_blocks_for_gallons(gallons) ==
    LET gallon_floor   == FxToInt(gallons)
        desired_blocks == gallon_floor - BLOCK_MARGIN
    IN  Max(0, Min(desired_blocks, MAX_BLOCKS))

(***************************************************************************)
(* The display: every lcd.write of a call, in order, as character codes.   *)
(***************************************************************************)
\* size_t LiquidCrystal::write(uint8_t): the argument is taken modulo 256
lcd_write(value) == <<value % 256>>

\* col running from first while col < limit, one write each
Cells(first, limit, ch) == [col \in 1 .. Max(0, limit - first) |-> ch % 256]

\* mutant: the plain meter pads to the last column before writing GAS
show_gas_meter_Wide(num_blocks) ==
    IF num_blocks < 8
    THEN Cells(0, num_blocks, FILLED_BLOCK)
           \o Cells(num_blocks, 16, EMPTY_BLOCK)
           \o lcd_write(CHAR_G) \o lcd_write(CHAR_A) \o lcd_write(CHAR_S)
    ELSE lcd_write(INVERSE_G) \o lcd_write(INVERSE_A) \o lcd_write(INVERSE_S)
           \o Cells(3, num_blocks, FILLED_BLOCK)
           \o Cells(num_blocks, 16, EMPTY_BLOCK)

\* show_gas_meter (identical in both sketches)
show_gas_meter(num_blocks) ==
    IF num_blocks < 8
    THEN Cells(0, num_blocks, FILLED_BLOCK)
           \o Cells(num_blocks, 13, EMPTY_BLOCK)
           \o lcd_write(CHAR_G) \o lcd_write(CHAR_A) \o lcd_write(CHAR_S)
    ELSE lcd_write(INVERSE_G) \o lcd_write(INVERSE_A) \o lcd_write(INVERSE_S)
           \o Cells(3, num_blocks, FILLED_BLOCK)
           \o Cells(num_blocks, 16, EMPTY_BLOCK)

\* int / int of C: the quotient is truncated towards zero
IntDiv(a, b) == Sgn(a) * Sgn(b) * (Abs(a) \div Abs(b))

\* the passes of the for loop of print_number from digit position i down to 0
RECURSIVE print_number_from(_, _, _)
print_number_from(residue, i, radix) ==
    IF i < 0 THEN <<>>
    ELSE LET placeval   == 10 ^ i
             this_digit == IntDiv(residue, placeval)
         IN  lcd_write(CHAR_0 + this_digit)
               \o (IF radix = i THEN lcd_write(CHAR_DOT) ELSE <<>>)
               \o print_number_from(residue - (this_digit * placeval), i - 1,
                                    radix)

\* print_number (identical in both sketches)
print_number(number, digits, radix) ==
    print_number_from(number, digits - 1, radix)

\* show_gas_stats of the filtered sketch; gallons*10 is converted to int
show_gas_stats(row, sensor_value, gallons) ==
    print_number(sensor_value, 4, 0 - 1)
      \o lcd_write(EMPTY_BLOCK)
      \o print_number(FxToInt(gallons * 10), 3, 1)
      \o lcd_write(CHAR_g)

\* show_gas_stats of the two-stage sketch; ohmage and gallons*10 are
\* converted to int
show_gas_stats2(sensor_value, ohmage, gallons) ==
    print_number(sensor_value, 4, 0 - 1)
      \o lcd_write(EMPTY_BLOCK)
      \o print_number(FxToInt(ohmage), 4, 0 - 1)
      \o lcd_write(OHMS)
      \o lcd_write(EMPTY_BLOCK)
      \o print_number(FxToInt(gallons * 10), 3, 1)
      \o lcd_write(CHAR_g)

(***************************************************************************)
(* Scheduler arithmetic (identical in both sketches).                      *)
(***************************************************************************)
\* unsigned int current_time_ms = millis();
current_time_ms(c) == c % UINT_MOD

\* mutant: the unsigned subtraction without the overflow guard
delta_ms_Underflow(cur, last) == (cur - last) % UINT_MOD

\* delta_ms, "treating overflow as a long duration"
delta_ms(cur, last) ==
    IF cur < last THEN WRAP_DELTA_MS ELSE cur - last

\* mutant: <= where the code has <
EarlyReturn_Strict(delta, startup) ==
    \/ delta <= STARTUP_SAMPLE_RATE_MS
    \/ (~startup /\ delta <= NORMAL_SAMPLE_RATE_S * 1000)

\* mutant: the startup rate in both modes
EarlyReturn_OneRate(delta, startup) ==
    delta < STARTUP_SAMPLE_RATE_MS

\* the condition of the early return
EarlyReturn(delta, startup) ==
    \/ delta < STARTUP_SAMPLE_RATE_MS
    \/ (~startup /\ delta < NORMAL_SAMPLE_RATE_S * 1000)

\* mutant: the mode recomputed on every sample, not only in startup mode
SwitchMode_Ungated(startup, cur) ==
    ((cur - boot_time_ms) % UINT_MOD) < STARTUP_SAMPLE_DURATION_S * 1000

\* mutant: the "switch to normal mode" block is missing
SwitchMode_Never(startup, cur) == startup

\* mutant: <= where the code has <
SwitchMode_Inclusive(startup, cur) ==
    IF startup
    THEN ((cur - boot_time_ms) % UINT_MOD) <= STARTUP_SAMPLE_DURATION_S * 1000
    ELSE startup

\* in_startup_mode after the "switch to normal mode" block
SwitchMode(startup, cur) ==
    IF startup
    THEN LET time_since_boot_ms == (cur - boot_time_ms) % UINT_MOD
         IN  time_since_boot_ms < STARTUP_SAMPLE_DURATION_S * 1000
    ELSE startup

(***************************************************************************)
(* Sample cache of the filtered sketch.                                    *)
(***************************************************************************)
\* mutant: the index wraps one slot early
AdvanceIndex_Early(n) == IF n + 1 >= MAX_SAMPLES - 1 THEN 0 ELSE n + 1

\* mutant: > where the code has >=
AdvanceIndex_Late(n) == IF n + 1 > MAX_SAMPLES THEN 0 ELSE n + 1

\* ++next_sample; if (next_sample >= MAX_SAMPLES) next_sample = 0;
AdvanceIndex(n) == IF n + 1 >= MAX_SAMPLES THEN 0 ELSE n + 1

\* mutant: the count saturates one short of the capacity
AdvanceCount_Short(n) == Min(n + 1, MAX_SAMPLES - 1)

\* samples_to_average = min(samples_to_average + 1, MAX_SAMPLES);
AdvanceCount(n) == Min(n + 1, MAX_SAMPLES)

\* for (int i = 0; i < n; ++i) sum += buf[i];
\* The sum of the non-negative buf[0] .. buf[n-1] is taken as the size of the
\* bag that holds buf[i] + 1 copies of each slot i < n, less n.  A float holds
\* every integer below 2^24 exactly, so the sum is an exact integer.
SumFirst(buf, n) ==
    IF n = 0 THEN 0
    ELSE BagCardinality([i \in 0 .. (n - 1) |-> buf[i] + 1]) - n

\* the slots the averaging loop reads
SlotsRead(n) == 0 .. (n - 1)

VARIABLES
    clock,                  \* millis(), before truncation
    in_startup_mode,        \* filtered sketch
    last_update_time_ms,
    samples,
    next_sample,
    samples_to_average,
    in_startup_mode2,       \* two-stage sketch
    last_update_time_ms2,
    out,                    \* what the last loop() of the filtered sketch did
    out2,                   \* what the last loop() of the two-stage sketch did
    written,                \* slots of samples[] a sample has been stored in
    recent,                 \* the readings sampled, newest last, at most MAX_SAMPLES
    num_samples,            \* samples taken by the filtered sketch
    num_samples2,           \* samples taken by the two-stage sketch
    update_clock,           \* clock when last_update_time_ms was last set
    update_clock2,
    last_reading,           \* sensor environment
    changes,
    polls,
    quant,                  \* quantizer applied to drawn inputs
    lcd,                    \* the display pipeline applied to drawn readings
    run                     \* the loop() in progress, statement by statement

vars == <<clock, in_startup_mode, last_update_time_ms, samples, next_sample,
          samples_to_average, in_startup_mode2, last_update_time_ms2, out, out2,
          written, recent, num_samples, num_samples2, update_clock,
          update_clock2, last_reading, changes, polls, quant, lcd,
          run>>

sketch == <<clock, in_startup_mode, last_update_time_ms, samples, next_sample,
            samples_to_average, in_startup_mode2, last_update_time_ms2, out, out2,
            written, recent, num_samples, num_samples2, update_clock,
            update_clock2, last_reading, changes, polls>>

\* the record of a loop(): whether it sampled (due), the mode, the clock value
\* and last_update_time_ms it started from, the delta_ms it computed, the real
\* time since the last update (advance), the analogRead result (sensor), the
\* sum and count averaged, and the arguments of show_gas_meter (meter) and of
\* show_gas_stats (stats)

\* no loop() has run yet
Idle ==
    [polled |-> FALSE, due |-> FALSE, entry_startup |-> TRUE, cur |-> 0,
     entry_last |-> 0, delta |-> 0, advance |-> 0, sensor_read |-> FALSE,
     sensor |-> NoValue, sum |-> 0, count |-> 0, meter |-> NoValue,
     stats |-> <<>>]

\* a loop() that took the early return
Skipped(cur, last, startup, adv) ==
    [polled |-> TRUE, due |-> FALSE, entry_startup |-> startup, cur |-> cur,
     entry_last |-> last, delta |-> delta_ms(cur, last), advance |-> adv,
     sensor_read |-> FALSE, sensor |-> NoValue, sum |-> 0, count |-> 0,
     meter |-> NoValue, stats |-> <<>>]

\* a loop() that sampled
Sampled(cur, last, startup, adv, sensor_value, sum, count, num_blocks, stats) ==
    [polled |-> TRUE, due |-> TRUE, entry_startup |-> startup, cur |-> cur,
     entry_last |-> last, delta |-> delta_ms(cur, last), advance |-> adv,
     sensor_read |-> TRUE, sensor |-> sensor_value, sum |-> sum,
     count |-> count, meter |-> num_blocks, stats |-> stats]

(***************************************************************************)
(* The readings sampled so far, newest last, kept as runs <<value, length>> *)
(* of equal consecutive readings; only the newest MAX_SAMPLES are kept.     *)
(***************************************************************************)
RECURSIVE RunsLen(_)
RunsLen(s) == IF s = <<>> THEN 0 ELSE s[1][2] + RunsLen(Tail(s))

RECURSIVE RunsSum(_)
RunsSum(s) == IF s = <<>> THEN 0 ELSE s[1][1] * s[1][2] + RunsSum(Tail(s))

DropOldest(s) ==
    IF s[1][2] = 1 THEN Tail(s) ELSE <<<<s[1][1], s[1][2] - 1>>>> \o Tail(s)

PushNewest(s, r) ==
    IF s # <<>> /\ s[Len(s)][1] = r
    THEN [s EXCEPT ![Len(s)] = <<r, s[Len(s)][2] + 1>>]
    ELSE Append(s, <<r, 1>>)

Remember(s, r) ==
    IF RunsLen(s) < MAX_SAMPLES THEN PushNewest(s, r)
    ELSE PushNewest(DropOldest(s), r)

(***************************************************************************)
(* The arguments of the call show_gas_stats(...) of each sketch, as the    *)
(* callee receives them (a float passed for an int parameter is converted).*)
(***************************************************************************)
\* show_gas_stats(1, average_sensor_value, gallons);
StatsArgs(average_sensor_value, gallons) ==
    <<1, FxToInt(average_sensor_value), gallons>>

\* mutant: the ohmage passed where the sensor value belongs
StatsArgs2_Ohmage(sensor_value, ohmage, gallons) ==
    <<FxToInt(ohmage), ohmage, gallons>>

\* show_gas_stats(sensor_value, ohmage, gallons);
StatsArgs2(sensor_value, ohmage, gallons) ==
    <<sensor_value, ohmage, gallons>>

(***************************************************************************)
(* loop() of the filtered sketch, polled when millis() is c and the        *)
(* sensor would read r.                                                    *)
(***************************************************************************)
\* mutant: the time stamp is taken before the early return
loop_return_Stamped(c) ==
    /\ out' = Skipped(current_time_ms(c), last_update_time_ms, in_startup_mode,
                      c - update_clock)
    /\ last_update_time_ms' = current_time_ms(c)
    /\ update_clock' = c
    /\ UNCHANGED <<in_startup_mode, samples, next_sample, samples_to_average,
                   written, recent, num_samples>>

\* the early return: nothing but the diagnostics has happened
loop_return(c) ==
    /\ out' = Skipped(current_time_ms(c), last_update_time_ms, in_startup_mode,
                      c - update_clock)
    /\ UNCHANGED <<in_startup_mode, last_update_time_ms, samples, next_sample,
                   samples_to_average, written, recent, num_samples,
                   update_clock>>

\* the rest of loop() once the early return is passed
loop_sample(c, r) ==
    LET cur          == current_time_ms(c)
        sensor_value == r
        buf          == [samples EXCEPT ![next_sample] = sensor_value]
        count        == AdvanceCount(samples_to_average)
        sum          == SumFirst(buf, count)
        average_sensor_value == FxRatio(sum, count)
        gallons      ==
            estimate_gallons_remaining_from_reading(average_sensor_value)
        num_blocks   == get_num_display_blocks_for_gallons(gallons)
    IN  /\ in_startup_mode' = SwitchMode(in_startup_mode, cur)
        /\ samples' = buf
        /\ next_sample' = AdvanceIndex(next_sample)
        /\ samples_to_average' = count
        /\ written' = written \cup {next_sample}
        /\ recent' = Remember(recent, sensor_value)
        /\ num_samples' = num_samples + 1
        /\ out' = Sampled(cur, last_update_time_ms, in_startup_mode,
                          c - update_clock, sensor_value, sum, count,
                          num_blocks, StatsArgs(average_sensor_value, gallons))
        /\ last_update_time_ms' = cur
        /\ update_clock' = c

loop(c, r) ==
    LET cur      == current_time_ms(c)
        delta_ms_ == delta_ms(cur, last_update_time_ms)
    IN  IF EarlyReturn(delta_ms_, in_startup_mode)
        THEN loop_return(c)
        ELSE loop_sample(c, r)

(***************************************************************************)
(* loop() of the two-stage sketch.                                         *)
(***************************************************************************)
\* mutant: the early return of the two-stage sketch stamps the poll time
loop_return2_Stamped(c) ==
    /\ out2' = Skipped(current_time_ms(c), last_update_time_ms2,
                       in_startup_mode2, c - update_clock2)
    /\ last_update_time_ms2' = current_time_ms(c)
    /\ update_clock2' = c
    /\ UNCHANGED <<in_startup_mode2, num_samples2>>

loop_return2(c) ==
    /\ out2' = Skipped(current_time_ms(c), last_update_time_ms2,
                       in_startup_mode2, c - update_clock2)
    /\ UNCHANGED <<in_startup_mode2, last_update_time_ms2, num_samples2,
                   update_clock2>>

loop_sample2(c, r) ==
    LET cur          == current_time_ms(c)
        sensor_value == r
        ohmage       == estimate_ohmage_from_reading(sensor_value)
        gallons      == get_gallons_for_ohmage(ohmage)
        num_blocks   == get_num_display_blocks_for_gallons(gallons)
    IN  /\ in_startup_mode2' = SwitchMode(in_startup_mode2, cur)
        /\ num_samples2' = num_samples2 + 1
        /\ out2' = Sampled(cur, last_update_time_ms2, in_startup_mode2,
                           c - update_clock2, sensor_value, sensor_value, 1,
                           num_blocks, StatsArgs2(sensor_value, ohmage, gallons))
        /\ last_update_time_ms2' = cur
        /\ update_clock2' = c

loop2(c, r) ==
    LET cur      == current_time_ms(c)
        delta_ms_ == delta_ms(cur, last_update_time_ms2)
    IN  IF EarlyReturn(delta_ms_, in_startup_mode2)
        THEN loop_return2(c)
        ELSE loop_sample2(c, r)

(***************************************************************************)
(* The sensor: the level it reports changes at most MaxChanges times.      *)
(***************************************************************************)
Sense(r) ==
    LET changed == last_reading # NoValue /\ r # last_reading
    IN  /\ changed => changes < MaxChanges
        /\ changes' = IF changed THEN changes + 1 ELSE changes
        /\ last_reading' = r

\* d ms pass, then both sketches run loop() once
Poll(d, r) ==
    /\ clock' = clock + d
    /\ Sense(r)
    /\ loop(clock + d, r)
    /\ loop2(clock + d, r)
    /\ UNCHANGED <<quant, lcd, run>>

QuantIdle ==
    [pc |-> "idle", g1 |-> 0, g2 |-> 0, b1 |-> NoValue, b2 |-> NoValue]

\* gallons values at and just below every whole gallon from QuantBelow under
\* zero to QuantAbove
QuantInputs ==
    {n * FP + f : n \in (0 - QuantBelow) .. QuantAbove, f \in {0, FP - 1}}

\* the quantizer applied to the two gallons values drawn
Quantize ==
    /\ quant.pc = "drawn"
    /\ quant' = [quant EXCEPT !.pc = "done",
                              !.b1 = get_num_display_blocks_for_gallons(quant.g1),
                              !.b2 = get_num_display_blocks_for_gallons(quant.g2)]
    /\ UNCHANGED <<sketch, lcd, run>>

(***************************************************************************)
(* The path from analogRead to the display, lines 158-179 and 188-195, on  *)
(* drawn readings r1 <= r2; in the filtered sketch each reading is the     *)
(* first sample, so that the average is the reading.                       *)
(***************************************************************************)
NoShow == [blocks |-> NoValue, row0 |-> <<>>, row1 |-> <<>>]

LcdIdle ==
    [pc |-> "idle", r1 |-> 0, r2 |-> 0, a |-> NoShow, b |-> NoShow,
     a2 |-> NoShow, b2 |-> NoShow]

\* what the filtered sketch displays for a first sample of sensor_value
Shown(sensor_value) ==
    LET average_sensor_value == FxRatio(sensor_value, 1)
        gallons    ==
            estimate_gallons_remaining_from_reading(average_sensor_value)
        num_blocks == get_num_display_blocks_for_gallons(gallons)
        args       == StatsArgs(average_sensor_value, gallons)
    IN  [blocks |-> num_blocks, row0 |-> show_gas_meter(num_blocks),
         row1 |-> show_gas_stats(args[1], args[2], args[3])]

\* what the two-stage sketch displays for sensor_value
Shown2(sensor_value) ==
    LET ohmage     == estimate_ohmage_from_reading(sensor_value)
        gallons    == get_gallons_for_ohmage(ohmage)
        num_blocks == get_num_display_blocks_for_gallons(gallons)
        args       == StatsArgs2(sensor_value, ohmage, gallons)
    IN  [blocks |-> num_blocks, row0 |-> show_gas_meter(num_blocks),
         row1 |-> show_gas_stats2(args[1], args[2], args[3])]

\* the gaps between the two readings drawn
PairGaps == {0, 1, 7, 64}

\* both sketches display both readings
Display ==
    /\ lcd.pc = "drawn"
    /\ lcd' = [lcd EXCEPT !.pc = "done",
                          !.a = Shown(lcd.r1), !.b = Shown(lcd.r2),
                          !.a2 = Shown2(lcd.r1), !.b2 = Shown2(lcd.r2)]
    /\ UNCHANGED <<sketch, quant, run>>

(***************************************************************************)
(* loop() statement by statement.  One sketch at a time runs its loop():   *)
(* run holds its locals, the statement it is at (pc) and the steps it has  *)
(* taken in this poll (events).                                            *)
(***************************************************************************)
Sketches == {"filtered", "two_stage"}

NoRun ==
    [sketch |-> "none", pc |-> "idle", cur |-> 0, delta_ms |-> 0,
     entry_startup |-> TRUE, entry_last |-> 0, adv |-> 0,
     sensor_value |-> NoValue, sum |-> 0, count |-> 0,
     average_sensor_value |-> 0, ohmage |-> 0, gallons |-> 0,
     num_blocks |-> NoValue, row0 |-> <<>>, row1 |-> <<>>, events |-> <<>>]

filtered_state ==
    <<in_startup_mode, last_update_time_ms, samples, next_sample,
      samples_to_average, out, written, recent, num_samples, update_clock>>

two_stage_state ==
    <<in_startup_mode2, last_update_time_ms2, out2, num_samples2,
      update_clock2>>

sensor_state == <<last_reading, changes>>

\* mutant: show_gas_stats is called before show_gas_meter
NextStatement_StatsFirst(pc, k) ==
    CASE pc = "decide"   -> "mode"
      [] pc = "mode"     -> "read"
      [] pc = "read"     -> IF k = "filtered" THEN "filter" ELSE "estimate"
      [] pc = "filter"   -> "estimate"
      [] pc = "estimate" -> "quantize"
      [] pc = "quantize" -> "stats"
      [] pc = "stats"    -> "meter"
      [] pc = "meter"    -> "stamp"
      [] pc = "stamp"    -> "idle"

\* the statement of loop() that follows statement pc once the early return
\* is passed; the two-stage sketch has no sample cache
NextStatement(pc, k) ==
    CASE pc = "decide"   -> "mode"
      [] pc = "mode"     -> "read"
      [] pc = "read"     -> IF k = "filtered" THEN "filter" ELSE "estimate"
      [] pc = "filter"   -> "estimate"
      [] pc = "estimate" -> "quantize"
      [] pc = "quantize" -> "meter"
      [] pc = "meter"    -> "stats"
      [] pc = "stats"    -> "stamp"
      [] pc = "stamp"    -> "idle"

\* the run after the statement at pc, which is step event, has executed
After(r, event) ==
    [r EXCEPT !.pc = NextStatement(r.pc, r.sketch),
              !.events = Append(r.events, event)]

\* d ms pass, then sketch k enters loop() and reads millis()
Enter(d, k) ==
    LET cur     == current_time_ms(clock + d)
        last    == IF k = "filtered" THEN last_update_time_ms
                                    ELSE last_update_time_ms2
        startup == IF k = "filtered" THEN in_startup_mode ELSE in_startup_mode2
        updated == IF k = "filtered" THEN update_clock ELSE update_clock2
    IN  /\ run.pc = "idle"
        /\ clock' = clock + d
        /\ run' = [NoRun EXCEPT !.sketch = k, !.pc = "decide", !.cur = cur,
                                !.delta_ms = delta_ms(cur, last),
                                !.entry_startup = startup, !.entry_last = last,
                                !.adv = (clock + d) - updated]
        /\ UNCHANGED <<filtered_state, two_stage_state, sensor_state, quant,
                       lcd>>

\* if (delta_ms < ...) return;
StepDecide ==
    /\ run.pc = "decide"
    /\ IF EarlyReturn(run.delta_ms, run.entry_startup)
       THEN /\ run' = [run EXCEPT !.pc = "idle", !.events = <<"not_due">>]
            /\ IF run.sketch = "filtered"
               THEN /\ out' = Skipped(run.cur, run.entry_last,
                                      run.entry_startup, run.adv)
                    /\ UNCHANGED out2
               ELSE /\ out2' = Skipped(run.cur, run.entry_last,
                                       run.entry_startup, run.adv)
                    /\ UNCHANGED out
       ELSE /\ run' = After(run, "due")
            /\ UNCHANGED <<out, out2>>
    /\ UNCHANGED <<clock, in_startup_mode, last_update_time_ms, samples,
                   next_sample, samples_to_average, written, recent,
                   num_samples, update_clock, in_startup_mode2,
                   last_update_time_ms2, num_samples2, update_clock2,
                   sensor_state, polls, quant, lcd>>

\* the "switch to normal mode" block
StepMode ==
    /\ run.pc = "mode"
    /\ run' = After(run, "mode")
    /\ IF run.sketch = "filtered"
       THEN /\ in_startup_mode' = SwitchMode(in_startup_mode, run.cur)
            /\ UNCHANGED in_startup_mode2
       ELSE /\ in_startup_mode2' = SwitchMode(in_startup_mode2, run.cur)
            /\ UNCHANGED in_startup_mode
    /\ UNCHANGED <<clock, last_update_time_ms, samples, next_sample,
                   samples_to_average, out, written, recent, num_samples,
                   update_clock, last_update_time_ms2, out2, num_samples2,
                   update_clock2, sensor_state, polls, quant, lcd>>

\* int sensor_value = analogRead(...);
StepRead(r) ==
    /\ run.pc = "read"
    /\ Sense(r)
    /\ run' = After([run EXCEPT !.sensor_value = r], "sensor_read")
    /\ num_samples2' =
           IF run.sketch = "two_stage" THEN num_samples2 + 1 ELSE num_samples2
    /\ UNCHANGED <<clock, filtered_state, in_startup_mode2,
                   last_update_time_ms2, out2, update_clock2, polls, quant,
                   lcd>>

\* update the cache, then the rolling average (filtered sketch only)
StepFilter ==
    LET buf   == [samples EXCEPT ![next_sample] = run.sensor_value]
        count == AdvanceCount(samples_to_average)
        sum   == SumFirst(buf, count)
    IN  /\ run.pc = "filter"
        /\ samples' = buf
        /\ next_sample' = AdvanceIndex(next_sample)
        /\ samples_to_average' = count
        /\ written' = written \cup {next_sample}
        /\ recent' = Remember(recent, run.sensor_value)
        /\ num_samples' = num_samples + 1
        /\ run' = After([run EXCEPT !.sum = sum, !.count = count,
                                    !.average_sensor_value =
                                        FxRatio(sum, count)], "filter")
        /\ UNCHANGED <<clock, in_startup_mode, last_update_time_ms, out,
                       update_clock, two_stage_state, sensor_state, polls,
                       quant, lcd>>

\* float gallons = ...;
StepEstimate ==
    LET ohmage  == estimate_ohmage_from_reading(run.sensor_value)
        locals  ==
            IF run.sketch = "filtered"
            THEN [run EXCEPT !.gallons =
                      estimate_gallons_remaining_from_reading(
                          run.average_sensor_value)]
            ELSE [run EXCEPT !.sum = run.sensor_value, !.count = 1,
                             !.ohmage = ohmage,
                             !.gallons = get_gallons_for_ohmage(ohmage)]
    IN  /\ run.pc = "estimate"
        /\ run' = After(locals, "estimate")
        /\ UNCHANGED <<clock, filtered_state, two_stage_state, sensor_state,
                       polls, quant, lcd>>

\* int num_blocks = get_num_display_blocks_for_gallons(gallons);
StepQuantize ==
    /\ run.pc = "quantize"
    /\ run' = After([run EXCEPT !.num_blocks =
                         get_num_display_blocks_for_gallons(run.gallons)],
                    "quantize")
    /\ UNCHANGED <<clock, filtered_state, two_stage_state, sensor_state,
                   polls, quant, lcd>>

\* show_gas_meter(num_blocks);
StepMeter ==
    /\ run.pc = "meter"
    /\ run' = After([run EXCEPT !.row0 = show_gas_meter(run.num_blocks)],
                    "renderMeter")
    /\ UNCHANGED <<clock, filtered_state, two_stage_state, sensor_state,
                   polls, quant, lcd>>

\* the arguments of the show_gas_stats call of the running sketch
RunStatsArgs ==
    IF run.sketch = "filtered"
    THEN StatsArgs(run.average_sensor_value, run.gallons)
    ELSE StatsArgs2(run.sensor_value, run.ohmage, run.gallons)

\* show_gas_stats(...);
StepStats ==
    LET args == RunStatsArgs
        row  == IF run.sketch = "filtered"
                THEN show_gas_stats(args[1], args[2], args[3])
                ELSE show_gas_stats2(args[1], args[2], args[3])
    IN  /\ run.pc = "stats"
        /\ run' = After([run EXCEPT !.row1 = row], "renderStats")
        /\ UNCHANGED <<clock, filtered_state, two_stage_state, sensor_state,
                       polls, quant, lcd>>

\* last_update_time_ms = current_time_ms;
StepStamp ==
    LET done == Sampled(run.cur, run.entry_last, run.entry_startup, run.adv,
                        run.sensor_value, run.sum, run.count, run.num_blocks,
                        RunStatsArgs)
    IN  /\ run.pc = "stamp"
        /\ run' = After(run, "stamp")
        /\ IF run.sketch = "filtered"
           THEN /\ last_update_time_ms' = run.cur
                /\ update_clock' = clock
                /\ out' = done
                /\ UNCHANGED <<last_update_time_ms2, update_clock2, out2>>
           ELSE /\ last_update_time_ms2' = run.cur
                /\ update_clock2' = clock
                /\ out2' = done
                /\ UNCHANGED <<last_update_time_ms, update_clock, out>>
        /\ UNCHANGED <<clock, in_startup_mode, samples, next_sample,
                       samples_to_average, written, recent, num_samples,
                       in_startup_mode2, num_samples2, sensor_state, polls,
                       quant, lcd>>

InitSketch ==
    /\ clock = boot_time_ms
    /\ in_startup_mode = TRUE
    /\ last_update_time_ms = boot_time_ms
    /\ samples = [i \in 0 .. (MAX_SAMPLES - 1) |-> 0]
    /\ next_sample = 0
    /\ samples_to_average = 0
    /\ in_startup_mode2 = TRUE
    /\ last_update_time_ms2 = boot_time_ms
    /\ out = Idle
    /\ out2 = Idle
    /\ written = {}
    /\ recent = <<>>
    /\ num_samples = 0
    /\ num_samples2 = 0
    /\ update_clock = boot_time_ms
    /\ update_clock2 = boot_time_ms
    /\ last_reading = NoValue
    /\ changes = 0
    /\ polls = 0

Init == InitSketch /\ quant = QuantIdle /\ lcd = LcdIdle /\ run = NoRun

\* the scheduler under every cadence of polls, for a bounded number of polls
Next ==
    \E d \in Steps, r \in Readings :
        /\ polls < MaxPolls
        /\ polls' = polls + 1
        /\ Poll(d, r)

Spec == Init /\ [][Next]_vars

\* the sample cache over a long run of samples
NextFilter ==
    \E d \in FilterSteps, r \in Readings :
        /\ num_samples < MaxFilterSamples
        /\ UNCHANGED polls
        /\ Poll(d, r)

SpecFilter == Init /\ [][NextFilter]_vars

\* the quantizer as a pure function, on pairs g1 <= g2 of gallons values
InitQuant ==
    /\ InitSketch
    /\ \E a \in QuantInputs, b \in QuantInputs :
           /\ a <= b
           /\ quant = [QuantIdle EXCEPT !.pc = "drawn", !.g1 = a, !.g2 = b]
    /\ lcd = LcdIdle
    /\ run = NoRun

NextQuant == Quantize

SpecQuant == InitQuant /\ [][NextQuant]_vars

\* the display pipeline as a pure function of the reading, on every reading
\* of the converter and a second reading at a gap above it
InitDisplay ==
    /\ InitSketch
    /\ quant = QuantIdle
    /\ run = NoRun
    /\ \E r \in 0 .. ADC_MAX, g \in PairGaps :
           /\ r + g <= ADC_MAX
           /\ lcd = [LcdIdle EXCEPT !.pc = "drawn", !.r1 = r, !.r2 = r + g]

NextDisplay == Display

SpecDisplay == InitDisplay /\ [][NextDisplay]_vars

\* loop() statement by statement, either sketch polled at every cadence
NextSteps ==
    \/ \E d \in Steps, k \in Sketches :
           /\ polls < MaxRuns
           /\ polls' = polls + 1
           /\ Enter(d, k)
    \/ StepDecide
    \/ StepMode
    \/ \E r \in Readings : StepRead(r)
    \/ StepFilter
    \/ StepEstimate
    \/ StepQuantize
    \/ StepMeter
    \/ StepStats
    \/ StepStamp

SpecSteps == Init /\ [][NextSteps]_vars

\* the Arduino core calls loop() again whenever it has returned, so a poll
\* that can happen does happen; the clock advances between polls, by at most
\* 60037 ms
NextLive ==
    \E d \in LiveSteps, r \in Readings :
        /\ clock < MaxLiveClock
        /\ in_startup_mode \/ in_startup_mode2
        /\ UNCHANGED polls
        /\ Poll(d, r)

\* the part of NextLive that lets time pass.  Whatever the clock and the
\* sensor say, loop() runs to its end, so NextLive can happen exactly when
\* LivePolled can, and a step of NextLive is a step of LivePolled.
LivePolled ==
    /\ clock < MaxLiveClock
    /\ in_startup_mode \/ in_startup_mode2
    /\ \E d \in LiveSteps : clock' = clock + d

SpecLive == Init /\ [][NextLive]_vars /\ WF_clock(LivePolled)

(***************************************************************************)
(* Properties.                                                             *)
(***************************************************************************)
Loops == {out, out2}

\* the interval the mode at poll entry asks for
Interval(startup) ==
    IF startup THEN STARTUP_SAMPLE_RATE_MS ELSE NORMAL_SAMPLE_RATE_S * 1000

\* the elapsed time a poll computes from the values it started from
Elapsed(o) ==
    IF o.cur < o.entry_last THEN WRAP_DELTA_MS ELSE o.cur - o.entry_last

\* C1: in both sketches a poll samples exactly when the elapsed time it
\* computes is at least 500 ms in startup mode, at least 5000 ms in normal
\* mode (the mode at poll entry); no other poll samples.
C1_SamplesExactlyWhenDue ==
    \A o \in Loops :
        o.polled => (o.sensor_read <=> Elapsed(o) >= Interval(o.entry_startup))

\* a poll in normal mode that sampled at an elapsed time of exactly 5000 ms
C1_Witness ==
    /\ out.polled /\ ~out.entry_startup /\ Elapsed(out) = 5000 /\ out.sensor_read
    /\ out2.polled /\ ~out2.entry_startup /\ out2.sensor_read

\* C2: a poll that is not due changes neither in_startup_mode,
\* last_update_time_ms, samples, next_sample nor samples_to_average, does not
\* read the sensor and issues neither render command.
C2_NotDueIsNoOp ==
    [][ /\ ~out'.due =>
             /\ UNCHANGED <<in_startup_mode, last_update_time_ms, samples,
                            next_sample, samples_to_average>>
             /\ ~out'.sensor_read
             /\ out'.meter = NoValue
             /\ out'.stats = <<>>
        /\ ~out2'.due =>
             /\ UNCHANGED <<in_startup_mode2, last_update_time_ms2>>
             /\ ~out2'.sensor_read
             /\ out2'.meter = NoValue
             /\ out2'.stats = <<>> ]_vars

\* a poll in normal mode that was not due, after samples have been taken
C2_Witness ==
    /\ out.polled /\ ~out.due /\ ~out.entry_startup /\ num_samples > 1
    /\ out2.polled /\ ~out2.due

\* C3: a poll that reads a clock value below last_update_time_ms takes the
\* elapsed time as 30000 ms, samples, and sets last_update_time_ms to the
\* clock value it read, in startup mode and in normal mode alike.
C3_WrapForcesSample ==
    /\ (out.polled /\ out.cur < out.entry_last) =>
           /\ out.delta = WRAP_DELTA_MS
           /\ out.sensor_read
           /\ last_update_time_ms = out.cur
    /\ (out2.polled /\ out2.cur < out2.entry_last) =>
           /\ out2.delta = WRAP_DELTA_MS
           /\ out2.sensor_read
           /\ last_update_time_ms2 = out2.cur

\* a poll in startup mode whose clock value had wrapped, and that sampled
C3_Witness ==
    /\ out.polled /\ out.cur < out.entry_last /\ out.entry_startup
    /\ out.sensor_read /\ last_update_time_ms = out.cur
    /\ out2.polled /\ out2.cur < out2.entry_last /\ out2.entry_startup

\* C4: once in_startup_mode is false it is false in every later state.
C4_ModeNeverReverts ==
    [][ /\ ~in_startup_mode => ~in_startup_mode'
        /\ ~in_startup_mode2 => ~in_startup_mode2' ]_vars

\* a sample taken in normal mode after the clock wrapped, less than 5000 ms
\* past a multiple of 65536 ms since boot
C4_Witness ==
    /\ ~in_startup_mode /\ out.due /\ ~out.entry_startup
    /\ out.cur < out.entry_last
    /\ out.cur < STARTUP_SAMPLE_DURATION_S * 1000
    /\ ~in_startup_mode2 /\ out2.due /\ ~out2.entry_startup

\* C5, as claimed: between two consecutive sampling polls the clock has
\* advanced by at least 500 ms when the later poll is made in startup mode and
\* by at least 5000 ms when it is made in normal mode.
C5_ClockAdvancedByInterval ==
    \A o \in Loops : o.due => o.advance >= Interval(o.entry_startup)

\* C5, amended: the same, unless the later poll read a clock value below
\* last_update_time_ms (the 16 bit clock wrapped), where it samples whatever
\* the real advance.
C5_ClockAdvancedUnlessWrapped ==
    \A o \in Loops :
        o.due => (o.cur < o.entry_last \/ o.advance >= Interval(o.entry_startup))

\* a second sample in normal mode, taken with no wrap of the clock
C5_Witness ==
    /\ out.due /\ ~out.entry_startup /\ out.cur >= out.entry_last
    /\ num_samples >= 2 /\ out.advance >= 5000
    /\ out2.due /\ num_samples2 >= 2

\* C6: in the filtered sketch the average computed on the n-th sample is the
\* mean of exactly the most recent min(n, 100) readings: the sum averaged is
\* their sum and the count averaged is their number.
C6_AverageOfMostRecent ==
    out.due =>
        /\ out.count = Min(num_samples, MAX_SAMPLES)
        /\ RunsLen(recent) = Min(num_samples, MAX_SAMPLES)
        /\ out.sum = RunsSum(recent)

\* the 101st sample, where the first reading differed from the 100 equal
\* readings after it: the sensor changed once and the last 100 readings are
\* one run
C6_Witness ==
    /\ out.due /\ num_samples = MAX_SAMPLES + 1
    /\ changes = 1 /\ Len(recent) = 1
    /\ out.sum = MAX_SAMPLES * out.sensor

\* C7: samples_to_average is min(samples taken, 100), never exceeds
\* MAX_SAMPLES, and every slot the averaging loop reads has been written by a
\* sample.
C7_CountSaturates ==
    /\ samples_to_average = Min(num_samples, MAX_SAMPLES)
    /\ samples_to_average <= MAX_SAMPLES
    /\ SlotsRead(samples_to_average) \subseteq written

\* more samples than the cache holds
C7_Witness ==
    /\ num_samples > MAX_SAMPLES
    /\ samples_to_average = MAX_SAMPLES
    /\ out.due /\ out.count = MAX_SAMPLES

\* C8: the block count is in 0 .. 16 for every gallons value, negative ones
\* and ones above the capacity of the tank included, and g1 <= g2 implies
\* blocks(g1) <= blocks(g2).
C8_BlocksInRangeAndMonotone ==
    quant.pc = "done" =>
        /\ quant.b1 \in 0 .. 16
        /\ quant.b2 \in 0 .. 16
        /\ quant.g1 <= quant.g2 => quant.b1 <= quant.b2

\* a negative gallons value and one above the 19 gallons of the tank
C8_Witness ==
    /\ quant.pc = "done"
    /\ quant.g1 < 0 /\ quant.g2 > 19 * FP
    /\ quant.b1 < quant.b2

\* truncation toward zero of a gallons value
TruncGallons(g) == IF g >= 0 THEN g \div FP ELSE 0 - ((0 - g) \div FP)

Clamp(x, lo, hi) == IF x < lo THEN lo ELSE IF x > hi THEN hi ELSE x

\* C9: the block count is clamp(trunc(gallons) - 2, 0, 16): 0 below 3 gallons,
\* 16 from 18 gallons on, and between them one more block for each more
\* whole gallon.
C9_BlocksAreTruncatedGallonsLessTwo ==
    quant.pc = "done" =>
        /\ \A p \in {<<quant.g1, quant.b1>>, <<quant.g2, quant.b2>>} :
               /\ p[2] = Clamp(TruncGallons(p[1]) - 2, 0, 16)
               /\ p[1] < 3 * FP => p[2] = 0
               /\ p[1] >= 18 * FP => p[2] = 16
        /\ (quant.g1 >= 3 * FP /\ quant.g2 = quant.g1 + FP /\ quant.g2 < 18 * FP)
               => quant.b2 = quant.b1 + 1

\* just under 4 gallons and just under 5 gallons: 1 block and 2 blocks
C9_Witness ==
    /\ quant.pc = "done"
    /\ quant.g1 = 3 * FP + (FP - 1) /\ quant.b1 = 1
    /\ quant.g2 = quant.g1 + FP /\ quant.b2 = 2

\* C10, as claimed: in both sketches the sensor value passed to
\* show_gas_stats on a due tick is the analogRead result of that tick.
C10_StatsShowRawReading ==
    /\ out.due => out.stats[2] = out.sensor
    /\ out2.due => out2.stats[1] = out2.sensor

\* C10, amended: the two-stage sketch passes the analogRead result of the
\* tick; the filtered sketch passes the average of the valid window converted
\* to int, which is the analogRead result on the first sample.
C10_StatsShowReadingOrAverage ==
    /\ out2.due => out2.stats[1] = out2.sensor
    /\ out.due => out.stats[2] = RunsSum(recent) \div RunsLen(recent)
    /\ (out.due /\ num_samples = 1) => out.stats[2] = out.sensor

\* a due tick on which the filtered sketch shows a value that is not the
\* reading of the tick
C10_Witness ==
    /\ out.due /\ out.stats[2] # out.sensor
    /\ out2.due /\ out2.stats[1] = out2.sensor

\* C12: in the two-stage sketch every sampling poll whose raw reading is 243
\* passes 12 to show_gas_meter (the ohmage it computes is about 25.7, the
\* gallons about 14), whatever the mode and whatever was read before.
C12_Raw243Shows12Blocks ==
    (out2.due /\ out2.sensor = 243) =>
        /\ out2.meter = 12
        /\ out2.stats[2] > 25600000 /\ out2.stats[2] < 25800000
        /\ FxToInt(out2.stats[3]) = 14

\* a sampling poll in normal mode that read 243 after the sensor had read 300
C12_Witness ==
    /\ out2.due /\ out2.sensor = 243 /\ ~out2.entry_startup
    /\ changes = 1 /\ num_samples2 >= 2

\* C13: in the filtered sketch, whenever the average of the valid window is
\* 300 the gallons estimate is 7.19 and show_gas_meter is passed 5.
C13_Average300Shows5Blocks ==
    (out.due /\ out.sum = 300 * out.count) =>
        /\ out.stats[3] = 7190000
        /\ out.meter = 5

\* the first sample, reading 300, and a later window of several 300s
C13_Witness ==
    /\ out.due /\ out.sum = 300 * out.count /\ out.count >= 2
    /\ out.meter = 5

\* C17: after every poll next_sample is within 0 .. MAX_SAMPLES-1 and equals
\* the number of samples taken modulo 100, every slot written lies inside
\* samples, and the count the average divides by is at least 1.
C17_RingIndexInBounds ==
    /\ next_sample \in 0 .. (MAX_SAMPLES - 1)
    /\ next_sample = num_samples % MAX_SAMPLES
    /\ written \subseteq DOMAIN samples
    /\ DOMAIN samples = 0 .. (MAX_SAMPLES - 1)
    /\ out.due => (out.count >= 1 /\ samples_to_average >= 1)

\* the index has wrapped: 101 samples taken, the next slot is 1
C17_Witness ==
    /\ num_samples = MAX_SAMPLES + 1 /\ next_sample = 1 /\ out.due
    /\ written = 0 .. (MAX_SAMPLES - 1)

\* C18: polled on the same clock values, the two sketches are in the same
\* mode, hold the same last_update_time_ms and have sampled on the same polls.
C18_SchedulersAgree ==
    /\ in_startup_mode = in_startup_mode2
    /\ last_update_time_ms = last_update_time_ms2
    /\ out.polled = out2.polled
    /\ out.due = out2.due
    /\ out.sensor_read = out2.sensor_read
    /\ num_samples = num_samples2

\* both have sampled, skipped, left startup mode and sampled after a wrap
C18_Witness ==
    /\ ~in_startup_mode /\ ~in_startup_mode2
    /\ out.due /\ out2.due /\ out.cur < out.entry_last
    /\ num_samples >= 2 /\ polls > num_samples

\* a character '0' .. '9'
IsDigit(ch) == ch \in CHAR_0 .. (CHAR_0 + 9)

\* a field of digits only
DecimalField(f) == \A i \in DOMAIN f : IsDigit(f[i])

\* the gallons field: two digits, the point, one digit
GallonsField(f) ==
    /\ Len(f) = 4
    /\ IsDigit(f[1]) /\ IsDigit(f[2]) /\ f[3] = CHAR_DOT /\ IsDigit(f[4])

\* C16: for every reading 0..1023, in both sketches, every character that
\* show_gas_stats writes for a numeric field is a digit '0'..'9', the gallons
\* field having its single '.', also when ohmage or gallons is negative.
C16_StatsFieldsAreDecimal ==
    lcd.pc = "done" =>
        /\ \A s \in {lcd.a, lcd.b} :
               /\ Len(s.row1) = 10
               /\ DecimalField(SubSeq(s.row1, 1, 4))
               /\ GallonsField(SubSeq(s.row1, 6, 9))
        /\ \A s \in {lcd.a2, lcd.b2} :
               /\ Len(s.row1) = 16
               /\ DecimalField(SubSeq(s.row1, 1, 4))
               /\ DecimalField(SubSeq(s.row1, 6, 9))
               /\ GallonsField(SubSeq(s.row1, 12, 15))

\* C19: a higher reading never shows more blocks: for r1 <= r2 the block
\* count for r2 is at most the block count for r1, in the single-stage map
\* and in the two-stage map.
C19_HigherReadingNeverMoreBlocks ==
    (lcd.pc = "done" /\ lcd.r1 <= lcd.r2) =>
        /\ lcd.b.blocks <= lcd.a.blocks
        /\ lcd.b2.blocks <= lcd.a2.blocks

\* two different readings between which both maps lose blocks
C19_Witness ==
    /\ lcd.pc = "done" /\ lcd.r1 < lcd.r2
    /\ lcd.b.blocks < lcd.a.blocks /\ lcd.b.blocks > 0
    /\ lcd.b2.blocks < lcd.a2.blocks /\ lcd.b2.blocks > 0

\* the cells of a meter row: blocks and the three letters, plain or inverse
MeterCells ==
    {FILLED_BLOCK, EMPTY_BLOCK, CHAR_G, CHAR_A, CHAR_S, INVERSE_G, INVERSE_A,
     INVERSE_S}

\* C20: for every num_blocks in 0..16 show_gas_meter writes exactly 16 cells
\* to row 0, in the branch num_blocks < 8 and in the branch num_blocks >= 8.
C20_MeterFillsTheRow ==
    lcd.pc = "done" =>
        \A s \in {lcd.a, lcd.b, lcd.a2, lcd.b2} :
            /\ s.blocks \in 0 .. MAX_BLOCKS
            /\ Len(s.row0) = LCD_COLS
            /\ \A i \in DOMAIN s.row0 : s.row0[i] \in MeterCells

\* one reading displayed by the branch >= 8, the other by the branch < 8
C20_Witness ==
    /\ lcd.pc = "done"
    /\ lcd.a2.blocks >= 8 /\ lcd.a2.row0[1] = INVERSE_G
    /\ lcd.b2.blocks < 8 /\ lcd.b2.blocks > 0 /\ lcd.b2.row0[LCD_COLS] = CHAR_S

\* the steps of a due poll in the order claimed
ClaimedOrder(k) ==
    IF k = "filtered"
    THEN <<"due", "sensor_read", "filter", "estimate", "quantize",
           "renderMeter", "renderStats", "stamp">>
    ELSE <<"due", "sensor_read", "estimate", "quantize", "renderMeter",
           "renderStats", "stamp">>

IsMode(e) == e = "mode"

IsListed(e) == ~IsMode(e)

\* the steps taken, less the mode switch, which the order does not list
Listed(events) == SelectSeq(events, IsListed)

IsPrefix(s, t) == Len(s) <= Len(t) /\ s = SubSeq(t, 1, Len(s))

Taken(event) == \E i \in DOMAIN run.events : run.events[i] = event

\* the poll in progress, or the last one, was due
RunDue == run.events # <<>> /\ run.events[1] = "due"

\* in_startup_mode and last_update_time_ms of the sketch that is running
RunStartup ==
    IF run.sketch = "filtered" THEN in_startup_mode ELSE in_startup_mode2

RunLast ==
    IF run.sketch = "filtered" THEN last_update_time_ms
                               ELSE last_update_time_ms2

\* C11: within a due poll the steps are taken in the order due decision,
\* sensor read, cache update (filtered sketch), gallons estimate,
\* quantization, show_gas_meter, show_gas_stats, last_update_time_ms update,
\* and the sensor is never read before the poll has been found due.
C11_StepsInOrder ==
    /\ run.events = <<"not_due">>
          \/ IsPrefix(Listed(run.events), ClaimedOrder(run.sketch))
    /\ (RunDue /\ run.pc = "idle") =>
           Listed(run.events) = ClaimedOrder(run.sketch)
    /\ run.sensor_value # NoValue => RunDue
    /\ run.row1 # <<>> => run.row0 # <<>>
    /\ run.row0 # <<>> => run.num_blocks # NoValue
    /\ (RunDue /\ ~Taken("stamp")) => RunLast = run.entry_last
    /\ (RunDue /\ Taken("stamp")) => (RunLast = run.cur /\ run.row1 # <<>>)

\* the filtered sketch has completed its second due poll
C11_Witness ==
    /\ run.sketch = "filtered" /\ run.pc = "idle" /\ RunDue
    /\ Taken("filter") /\ Taken("stamp") /\ num_samples = 2

\* C14: on a due poll made in startup mode the mode becomes normal, before
\* the sensor is read, exactly when the clock value read less boot_time_ms is
\* at least 5000 ms, and stays startup otherwise; either way the sample is
\* taken and last_update_time_ms becomes the clock value read at the start
\* of the poll.
C14_StartupEndsOnDuePoll ==
    (RunDue /\ run.entry_startup) =>
        /\ ~Taken("mode") => RunStartup
        /\ Taken("mode") =>
               (RunStartup <=>
                    run.cur - boot_time_ms < STARTUP_SAMPLE_DURATION_S * 1000)
        /\ Taken("sensor_read") => Taken("mode")
        /\ run.pc = "idle" =>
               /\ Taken("sensor_read") /\ run.sensor_value # NoValue
               /\ RunLast = run.cur
               /\ run.cur = current_time_ms(clock)

\* a due poll in startup mode that switched to normal mode, after an earlier
\* due poll that stayed in startup mode
C14_Witness ==
    /\ run.sketch = "filtered" /\ run.pc = "idle" /\ RunDue
    /\ run.entry_startup /\ ~in_startup_mode /\ num_samples = 2
    /\ run.cur >= STARTUP_SAMPLE_DURATION_S * 1000

=============================================================================
